---------------------------- MODULE Spec2Model ----------------------------
(***************************************************************************)
(* A model of the update-available crate: the resolvers of src/data.rs,    *)
(* the Display rendering of UpdateInfo, the three check operations of      *)
(* src/logic.rs and the entry points of src/lib.rs.                        *)
(*                                                                         *)
(* Representation.  A Rust String is a sequence of characters, each        *)
(* character a one-element TLA+ string (the bullet U+2022 is written       *)
(* "U+2022").  Option<T> is a sequence of length 0 (None) or 1 (Some).     *)
(* Result<T, E> is a record [ok, val, err] whose val and err are options.  *)
(* Text written by writeln!/println! is a sequence of lines, one per       *)
(* terminated line, each the sequence of the pieces the format string      *)
(* joins.  A URL built by format! is the sequence of its pieces.           *)
(*                                                                         *)
(* The library keeps no state between calls: the variables record the      *)
(* most recent invocation (its arguments, what the upstream answered, what *)
(* it requested, wrote and returned) and two counters of all invocations.  *)
(***************************************************************************)
EXTENDS Integers, Sequences, FiniteSets, TLC

VARIABLES
    op,         \* the operation most recently invoked, "none" at start
    args,       \* its arguments
    upstream,   \* what the network answered to its request, if it made one
    requests,   \* the URLs it requested, in order
    trace,      \* the methods and resolvers it called, in order
    stdout,     \* the lines it wrote to standard output
    ret,        \* what it returned
    result,     \* the Result of the check operation it ran, if it ran one
    calls,      \* check operations invoked so far
    sent        \* outbound requests issued so far

vars == <<op, args, upstream, requests, trace, stdout, ret, result, calls, sent>>

---------------------------------------------------------------------------
(* Bounds of the model.                                                    *)

\* largest major/minor/patch number of the parsed versions given to new
MaxNum == 2
\* largest digit of the generated version strings
MaxDigit == 1
\* longest changelog, in lines, over the few line kinds
MaxLines == 6
\* longest changelog, in lines, over all the line kinds
MaxShort == 2
\* check operations invoked in one behaviour
MaxCalls == 2

---------------------------------------------------------------------------
(* Options, results, strings.                                              *)

None == <<>>
Some(x) == <<x>>
IsSome(o) == Len(o) = 1
Unwrap(o) == o[1]

Ok(v) == [ok |-> TRUE, val |-> Some(v), err |-> None]
Err(e) == [ok |-> FALSE, val |-> None, err |-> Some(e)]

RECURSIVE Concat(_)
\* the concatenation of a sequence of strings
Concat(ss) == IF ss = <<>> THEN <<>> ELSE Head(ss) \o Concat(Tail(ss))

\* all sequences over S of length at most n
SeqUpTo(S, n) == UNION {[1..k -> S] : k \in 0..n}

Digits == <<"0", "1", "2", "3", "4", "5", "6", "7", "8", "9">>
DigitChars == {Digits[i] : i \in 1..10}
LetterChars == {"a", "b", "e", "i", "n", "o", "r", "s", "t", "v", "x"}

DigitValue(c) == (CHOOSE i \in 1..10 : Digits[i] = c) - 1

RECURSIVE NumberValue(_)
\* the number a non-empty sequence of digits denotes
NumberValue(ds) ==
    IF Len(ds) = 1 THEN DigitValue(ds[1])
    ELSE 10 * NumberValue(SubSeq(ds, 1, Len(ds) - 1)) + DigitValue(ds[Len(ds)])

RECURSIVE NumberToString(_)
\* the decimal digits of a natural number (Display of u64)
NumberToString(n) ==
    IF n < 10 THEN <<Digits[n + 1]>>
    ELSE NumberToString(n \div 10) \o <<Digits[(n % 10) + 1]>>

\* the position of the first c in s, 0 when there is none
IndexOf(s, c) ==
    IF \E i \in 1..Len(s) : s[i] = c
    THEN CHOOSE i \in 1..Len(s) : s[i] = c /\ \A j \in 1..(i - 1) : s[j] # c
    ELSE 0

RECURSIVE Split(_, _)
\* str::split: the pieces of s between occurrences of c (always at least one)
Split(s, c) ==
    LET i == IndexOf(s, c)
    IN  IF i = 0 THEN <<s>>
        ELSE <<SubSeq(s, 1, i - 1)>> \o Split(SubSeq(s, i + 1, Len(s)), c)

\* str::starts_with
starts_with(s, p) == Len(s) >= Len(p) /\ SubSeq(s, 1, Len(p)) = p

\* a faulty strip_prefix (str::trim_start_matches): every leading occurrence
\* of the prefix is removed
RECURSIVE strip_prefix_all(_, _)
strip_prefix_all(s, p) ==
    IF p # <<>> /\ starts_with(s, p)
    THEN Some(Unwrap(strip_prefix_all(SubSeq(s, Len(p) + 1, Len(s)), p)))
    ELSE Some(s)

\* str::strip_prefix: Some(rest) when s starts with p, None otherwise
strip_prefix(s, p) ==
    IF starts_with(s, p) THEN Some(SubSeq(s, Len(p) + 1, Len(s))) ELSE None

\* Option::unwrap_or
unwrap_or(o, d) == IF IsSome(o) THEN Unwrap(o) ELSE d

---------------------------------------------------------------------------
(* semver::Version, as the crate's parser and Display define it.           *)

Version(major, minor, patch, pre, build) ==
    [major |-> major, minor |-> minor, patch |-> patch, pre |-> pre, build |-> build]

\* a numeric identifier: digits, no leading zero
IsNumeric(s) ==
    /\ s # <<>>
    /\ \A i \in 1..Len(s) : s[i] \in DigitChars
    /\ (Len(s) = 1 \/ s[1] # "0")

\* an identifier of a pre-release or of build metadata: [0-9A-Za-z-]+
IsIdent(s) ==
    /\ s # <<>>
    /\ \A i \in 1..Len(s) : s[i] \in DigitChars \cup LetterChars \cup {"-"}

IsPrerelease(s) ==
    \A k \in 1..Len(Split(s, ".")) :
        LET id == Split(s, ".")[k]
        IN  /\ IsIdent(id)
            /\ ((\A i \in 1..Len(id) : id[i] \in DigitChars) => IsNumeric(id))

IsBuildMetadata(s) ==
    \A k \in 1..Len(Split(s, ".")) : IsIdent(Split(s, ".")[k])

\* Version::parse: major.minor.patch, then -pre, then +build; Err on anything else
Version_parse(s) ==
    LET plus  == IndexOf(s, "+")
        main  == IF plus = 0 THEN s ELSE SubSeq(s, 1, plus - 1)
        build == IF plus = 0 THEN <<>> ELSE SubSeq(s, plus + 1, Len(s))
        dash  == IndexOf(main, "-")
        core  == IF dash = 0 THEN main ELSE SubSeq(main, 1, dash - 1)
        pre   == IF dash = 0 THEN <<>> ELSE SubSeq(main, dash + 1, Len(main))
        nums  == Split(core, ".")
        valid == /\ Len(nums) = 3
                 /\ \A k \in 1..3 : IsNumeric(nums[k])
                 /\ (dash # 0 => IsPrerelease(pre))
                 /\ (plus # 0 => IsBuildMetadata(build))
    IN  IF valid
        THEN Ok(Version(NumberValue(nums[1]), NumberValue(nums[2]),
                        NumberValue(nums[3]), pre, build))
        ELSE Err("semver::Error")

\* Display of Version: major.minor.patch[-pre][+build]
Version_to_string(v) ==
    NumberToString(v.major) \o <<".">> \o NumberToString(v.minor) \o <<".">>
        \o NumberToString(v.patch)
        \o (IF v.pre = <<>> THEN <<>> ELSE <<"-">> \o v.pre)
        \o (IF v.build = <<>> THEN <<>> ELSE <<"+">> \o v.build)

---------------------------------------------------------------------------
(* UpdateInfo::new.                                                        *)

RECURSIVE TupleGt(_, _)
\* PartialOrd of tuples: the first unequal pair of components decides
TupleGt(a, b) ==
    IF a = <<>> THEN FALSE
    ELSE IF Head(a) # Head(b) THEN Head(a) > Head(b)
    ELSE TupleGt(Tail(a), Tail(b))

UpdateInfo(is_update_available, latest_version, changelog, url) ==
    [is_update_available |-> is_update_available,
     latest_version |-> latest_version,
     changelog |-> changelog,
     url |-> url]

\* a faulty UpdateInfo_new: full semver precedence, where a release is
\* newer than a pre-release of the same major.minor.patch
UpdateInfo_new_semver(latest_version, current_version, changelog, url) ==
    UpdateInfo(
        \/ TupleGt(<<latest_version.major, latest_version.minor, latest_version.patch>>,
                   <<current_version.major, current_version.minor, current_version.patch>>)
        \/ /\ <<latest_version.major, latest_version.minor, latest_version.patch>>
                = <<current_version.major, current_version.minor, current_version.patch>>
           /\ latest_version.pre = <<>>
           /\ current_version.pre # <<>>,
        latest_version, changelog, url)

UpdateInfo_new(latest_version, current_version, changelog, url) ==
    UpdateInfo(
        TupleGt(<<latest_version.major, latest_version.minor, latest_version.patch>>,
                <<current_version.major, current_version.minor, current_version.patch>>),
        latest_version, changelog, url)

---------------------------------------------------------------------------
(* The comparison alone: UpdateInfo::new on parsed versions.               *)

Prereleases == {<<>>, <<"a">>}
Metadata == {<<<<>>, <<>>>>, <<<<"a">>, <<>>>>, <<<<>>, <<"b">>>>}

\* the parsed versions given to new
Versions ==
    {Version(ma, mi, pa, m[1], m[2]) :
        ma \in 0..MaxNum, mi \in 0..MaxNum, pa \in 0..MaxNum, m \in Metadata}

SomeChangelogs == {None, Some(<<"-", " ", "a">>)}
SomeUrls == {<<"https://example/releases/1">>, <<"https://example/releases/2">>}

NewArgs ==
    [latest_version : Versions, current_version : Versions,
     changelog : SomeChangelogs, url : SomeUrls]

Quiet ==
    /\ upstream = None
    /\ requests = <<>>
    /\ trace = <<>>
    /\ stdout = <<>>
    /\ result = None
    /\ calls = 0
    /\ sent = 0

InitNew ==
    /\ op = "none"
    /\ args \in NewArgs
    /\ ret = None
    /\ Quiet

\* UpdateInfo::new(latest_version, &current_version, changelog, url)
New ==
    /\ op = "none"
    /\ op' = "new"
    /\ ret' = UpdateInfo_new(args.latest_version, args.current_version,
                             args.changelog, args.url)
    /\ UNCHANGED <<args, upstream, requests, trace, stdout, result, calls, sent>>

NextNew == New

SpecNew == InitNew /\ [][NextNew]_vars

\* the version with its pre-release and build metadata removed
Core(v) == Version(v.major, v.minor, v.patch, <<>>, <<>>)

\* C1: new sets is_update_available exactly when latest's (major, minor,
\* patch) is lexicographically greater than current's; pre-release, build
\* metadata, changelog and url never change the result.
C1_NewerByTriple ==
    op = "new" =>
        LET l == args.latest_version
            c == args.current_version
        IN  /\ ret.is_update_available =
                  (\/ l.major > c.major
                   \/ l.major = c.major /\ l.minor > c.minor
                   \/ l.major = c.major /\ l.minor = c.minor /\ l.patch > c.patch)
            /\ \A ch \in SomeChangelogs, u \in SomeUrls :
                  ret.is_update_available =
                      UpdateInfo_new(Core(l), Core(c), ch, u).is_update_available
            /\ ret.latest_version = l
            /\ ret.changelog = args.changelog
            /\ ret.url = args.url

\* C1 witness: latest differs from current only in its metadata (a release
\* against its own pre-release) and new has answered "no update".
C1_Witness ==
    /\ op = "new"
    /\ Core(args.latest_version) = Core(args.current_version)
    /\ args.latest_version.pre = <<>>
    /\ args.current_version.pre # <<>>
    /\ ret.is_update_available = FALSE

---------------------------------------------------------------------------
(* The resolvers: UpdateInfo::from_crates and UpdateInfo::from_gitea_or_hub. *)

CrateInfo(max_version, name) == [max_version |-> max_version, name |-> name]
CratesResponse(info) == [info |-> info]
GiteaHubResponse(tag_name, body, html_url) ==
    [tag_name |-> tag_name, body |-> body, html_url |-> html_url]

\* anyhow::anyhow!("Failed to parse {side} version: {}", e)
ParseError(side, e) == <<"Failed to parse ", side, " version: ", e>>

\* a faulty from_crates: the url is the API endpoint, not the crate's page
from_crates_api_url(crates_response, current_version) ==
    LET latest_version == crates_response.info.max_version
        current == Version_parse(current_version)
        url == <<"https://crates.io/api/v1/crates/">> \o crates_response.info.name
    IN  IF ~current.ok THEN Err(ParseError("current", Unwrap(current.err)))
        ELSE Ok(UpdateInfo_new(latest_version, Unwrap(current.val), None, url))

from_crates(crates_response, current_version) ==
    LET latest_version == crates_response.info.max_version
        current == Version_parse(current_version)
        url == <<"https://crates.io/crates/">> \o crates_response.info.name
    IN  IF ~current.ok THEN Err(ParseError("current", Unwrap(current.err)))
        ELSE Ok(UpdateInfo_new(latest_version, Unwrap(current.val), None, url))

\* a faulty from_gitea_or_hub: the current version is parsed before the tag
from_gitea_or_hub_current_first(response, current_version) ==
    LET latest == Version_parse(unwrap_or(strip_prefix(response.tag_name, <<"v">>),
                                          response.tag_name))
        current == Version_parse(current_version)
    IN  IF ~current.ok THEN Err(ParseError("current", Unwrap(current.err)))
        ELSE IF ~latest.ok THEN Err(ParseError("latest", Unwrap(latest.err)))
        ELSE Ok(UpdateInfo_new(Unwrap(latest.val), Unwrap(current.val),
                               response.body, response.html_url))

from_gitea_or_hub(response, current_version) ==
    LET latest_version == unwrap_or(strip_prefix(response.tag_name, <<"v">>),
                                    response.tag_name)
        latest == Version_parse(latest_version)
        current == Version_parse(current_version)
    IN  IF ~latest.ok THEN Err(ParseError("latest", Unwrap(latest.err)))
        ELSE IF ~current.ok THEN Err(ParseError("current", Unwrap(current.err)))
        ELSE Ok(UpdateInfo_new(Unwrap(latest.val), Unwrap(current.val),
                               response.body, response.html_url))

\* the version strings the resolvers are given
Dotted(a, b, c) == <<Digits[a + 1], ".", Digits[b + 1], ".", Digits[c + 1]>>

Cores ==
    {Dotted(a, b, c) : a \in 0..MaxDigit, b \in 0..MaxDigit, c \in 0..MaxDigit}
        \cup {<<>>,
              <<"1", ".", "2", ".", "3">>,
              <<"2", ".", "0", ".", "0">>,
              <<"1", ".", "0">>,
              <<"0", "1", ".", "0", ".", "0">>,
              <<"1", ".", "0", ".", "x">>,
              <<"1", "0", ".", "0", ".", "2">>}

Suffixes == {<<>>, <<"-", "a">>, <<"+", "b">>}
TagPrefixes == {<<>>, <<"v">>, <<"v", "v">>}

not_a_version == <<"n", "o", "t", "-", "a", "-", "v", "e", "r", "s", "i", "o", "n">>

Tags == {p \o c \o x : p \in TagPrefixes, c \in Cores, x \in Suffixes}
CurrentVersions ==
    {c \o x : c \in Cores, x \in Suffixes}
        \cup {not_a_version, <<"v", "1", ".", "0", ".", "0">>}

serde == <<"s", "e", "r", "d", "e">>
Names == {serde, <<"x">>}
Bodies == {None, Some(<<"-", " ", "a", "\n", "-", " ", "b">>)}
HtmlUrls == {<<"https://example/releases/1.0.0">>, <<"https://example/releases/2.0.0">>}

MaxVersions ==
    {Version(ma, mi, pa, m[1], m[2]) :
        ma \in 0..MaxDigit, mi \in 0..MaxDigit, pa \in 0..MaxDigit, m \in Metadata}
        \cup {Version(2, 0, 0, <<>>, <<>>)}

CratesArgs ==
    [kind : {"crates"},
     response : {CratesResponse(CrateInfo(v, n)) : v \in MaxVersions, n \in Names},
     current_version : CurrentVersions]

ForgeArgs ==
    [kind : {"forge"},
     response : {GiteaHubResponse(t, b, u) : t \in Tags, b \in Bodies, u \in HtmlUrls},
     current_version : CurrentVersions]

InitResolve ==
    /\ op = "none"
    /\ \/ args \in CratesArgs
       \/ args \in ForgeArgs
    /\ ret = None
    /\ Quiet

FromCrates ==
    /\ op = "none"
    /\ args.kind = "crates"
    /\ op' = "from_crates"
    /\ ret' = from_crates(args.response, args.current_version)
    /\ UNCHANGED <<args, upstream, requests, trace, stdout, result, calls, sent>>

FromGiteaOrHub ==
    /\ op = "none"
    /\ args.kind = "forge"
    /\ op' = "from_gitea_or_hub"
    /\ ret' = from_gitea_or_hub(args.response, args.current_version)
    /\ UNCHANGED <<args, upstream, requests, trace, stdout, result, calls, sent>>

NextResolve == FromCrates \/ FromGiteaOrHub

SpecResolve == InitResolve /\ [][NextResolve]_vars

\* the tag with exactly one leading "v" removed, when it has one
OneVRemoved(tag) ==
    IF Len(tag) >= 1 /\ tag[1] = "v" THEN SubSeq(tag, 2, Len(tag)) ELSE tag

v1_2_3 == Version(1, 2, 3, <<>>, <<>>)

\* C3: from_gitea_or_hub parses the tag with exactly one leading "v" removed,
\* and the tag unchanged when it has none: "v1.2.3" and "1.2.3" both give
\* latest_version 1.2.3; the tag "v" and a tag that still starts with "v"
\* after one strip ("vv1.2.3") give a latest-version parse error and no
\* UpdateInfo.
C3_OneLeadingV ==
    op = "from_gitea_or_hub" =>
        LET tag == args.response.tag_name
            parsed == Version_parse(OneVRemoved(tag))
        IN  /\ parsed.ok /\ ret.ok => Unwrap(ret.val).latest_version = Unwrap(parsed.val)
            /\ ~parsed.ok =>
                  /\ ~ret.ok
                  /\ ret.val = None
                  /\ Unwrap(ret.err)[2] = "latest"
            /\ ret.ok => parsed.ok
            /\ tag \in {<<"v", "1", ".", "2", ".", "3">>, <<"1", ".", "2", ".", "3">>}
                  /\ Version_parse(args.current_version).ok
                  => ret.ok /\ Unwrap(ret.val).latest_version = v1_2_3
            /\ (tag = <<"v">> \/ starts_with(OneVRemoved(tag), <<"v">>))
                  => ~ret.ok /\ ret.val = None /\ Unwrap(ret.err)[2] = "latest"

\* C3 witness: the tag "vv1.2.3" against a valid current version has been
\* refused as an unparsable latest version.
C3_Witness ==
    /\ op = "from_gitea_or_hub"
    /\ args.response.tag_name = <<"v", "v", "1", ".", "2", ".", "3">>
    /\ Version_parse(args.current_version).ok
    /\ ~ret.ok
    /\ Unwrap(ret.err)[2] = "latest"

\* C4: a resolver returns an error, and no UpdateInfo, exactly when a version
\* string it parses is invalid, and the error names the side: from_crates
\* fails only on an invalid current version and names "current";
\* from_gitea_or_hub names "latest" when the normalized tag is invalid and
\* "current" when the tag is valid and the current version is not.
C4_ErrorNamesSide ==
    /\ op = "from_crates" =>
          LET cur_ok == Version_parse(args.current_version).ok
          IN  /\ ret.ok = cur_ok
              /\ ret.ok = (ret.val # None)
              /\ ~cur_ok => Unwrap(ret.err)[2] = "current"
    /\ op = "from_gitea_or_hub" =>
          LET tag_ok == Version_parse(OneVRemoved(args.response.tag_name)).ok
              cur_ok == Version_parse(args.current_version).ok
          IN  /\ ret.ok = (tag_ok /\ cur_ok)
              /\ ret.ok = (ret.val # None)
              /\ ~tag_ok => Unwrap(ret.err)[2] = "latest"
              /\ tag_ok /\ ~cur_ok => Unwrap(ret.err)[2] = "current"
    /\ op \in {"from_crates", "from_gitea_or_hub"}
          /\ args.current_version = not_a_version
          => ~ret.ok

\* C4 witness: a valid tag against the current version "not-a-version" has
\* been refused with an error naming the current side.
C4_Witness ==
    /\ op = "from_gitea_or_hub"
    /\ Version_parse(OneVRemoved(args.response.tag_name)).ok
    /\ args.current_version = not_a_version
    /\ ~ret.ok
    /\ Unwrap(ret.err)[2] = "current"

\* C12: a successful resolve carries the informational fields through:
\* from_gitea_or_hub returns the response's body as changelog (absent when
\* the body is absent) and its html_url as url, whatever the tag and the
\* current version; from_crates returns no changelog and the url
\* "https://crates.io/crates/" followed by the package name (max_version
\* 2.0.0, name serde, current 1.0.0: update available, latest 2.0.0, no
\* changelog, url https://crates.io/crates/serde).
C12_FieldsCarriedThrough ==
    /\ op = "from_gitea_or_hub" /\ ret.ok =>
          /\ Unwrap(ret.val).changelog = args.response.body
          /\ Unwrap(ret.val).url = args.response.html_url
    /\ op = "from_crates" /\ ret.ok =>
          /\ Unwrap(ret.val).changelog = <<>>
          /\ Unwrap(ret.val).url
                = <<"https://crates.io/crates/">> \o args.response.info.name
          /\ Unwrap(ret.val).latest_version = args.response.info.max_version
    /\ op = "from_crates"
          /\ args.response.info = CrateInfo(Version(2, 0, 0, <<>>, <<>>), serde)
          /\ args.current_version = <<"1", ".", "0", ".", "0">>
          => ret = Ok([is_update_available |-> TRUE,
                       latest_version |-> Version(2, 0, 0, <<>>, <<>>),
                       changelog |-> <<>>,
                       url |-> <<"https://crates.io/crates/",
                                 "s", "e", "r", "d", "e">>])

\* C12 witness: the registry response {max_version 2.0.0, name serde}
\* against current 1.0.0 has resolved to an available update.
C12_Witness ==
    /\ op = "from_crates"
    /\ args.response.info = CrateInfo(Version(2, 0, 0, <<>>, <<>>), serde)
    /\ args.current_version = <<"1", ".", "0", ".", "0">>
    /\ ret.ok
    /\ Unwrap(ret.val).is_update_available

---------------------------------------------------------------------------
(* Display for UpdateInfo, and UpdateInfo::print.                          *)

Bullet == "U+2022"
Whitespace == {" ", "\t", "\r", "\n"}

\* str::lines: the text cut after every "\n", each line without its "\n" and
\* without a "\r" before it; text after the last "\n" is a line when not empty
lines(text) ==
    LET pieces == Split(text, "\n")
        n == Len(pieces)
        strip_cr(l) ==
            IF l # <<>> /\ l[Len(l)] = "\r" THEN SubSeq(l, 1, Len(l) - 1) ELSE l
    IN  [i \in 1..(n - 1) |-> strip_cr(pieces[i])]
            \o (IF pieces[n] = <<>> THEN <<>> ELSE <<pieces[n]>>)

\* Iterator::take
take(s, n) == SubSeq(s, 1, IF Len(s) < n THEN Len(s) ELSE n)

\* line.trim().is_empty()
is_blank(line) == \A i \in 1..Len(line) : line[i] \in Whitespace

\* line.trim().is_empty() || line.starts_with("## "): the lines fmt skips
is_skipped(line) == is_blank(line) \/ starts_with(line, <<"#", "#", " ">>)

is_kept(line) == ~is_skipped(line)

RECURSIVE filter_kept(_)
\* Iterator::filter with the predicate of fmt: the kept lines, in order
filter_kept(s) ==
    IF s = <<>> THEN <<>>
    ELSE (IF is_kept(Head(s)) THEN <<Head(s)>> ELSE <<>>) \o filter_kept(Tail(s))

RECURSIVE trim_start_matches(_, _)
\* str::trim_start_matches(char): every leading occurrence removed
trim_start_matches(s, c) ==
    IF s # <<>> /\ Head(s) = c THEN trim_start_matches(Tail(s), c) ELSE s

Indent == <<" ", " ", " ", " ">>

\* the line fmt writes for one changelog line it keeps
entry(line) ==
    IF starts_with(line, <<"-">>) \/ starts_with(line, <<"*">>)
    THEN Indent \o line
    ELSE IF starts_with(line, <<Bullet>>)
    THEN Indent \o trim_start_matches(line, Bullet)
    ELSE Indent \o <<Bullet, " ">> \o line

BannerLine == <<"U+1F680", " ", " ", "A new version is available!">>
VersionLine(v) == <<"U+1F516", " ", " ", "Latest version: ">> \o Version_to_string(v)
ChangelogLine == <<"U+1F4DD", " ", " ", "Changelog:">>
MoreLine == Indent \o <<Bullet, " ", "(and more...)">>
FooterLine(url) == <<"U+1F310", " ", " ", "More info: ">> \o url

\* the lines of the changelog fmt renders: of the first 4 lines, those kept
rendered_lines(changelog) == filter_kept(take(lines(changelog), 4))

\* a faulty has_more: the bullet is added from 4 qualifying lines on
has_more_from_4(changelog) == Len(filter_kept(lines(changelog))) >= 4

\* whether fmt adds the "(and more...)" bullet
has_more(changelog) == Len(filter_kept(lines(changelog))) > 4

\* a faulty fmt: the banner and the footer are written whatever the flag says
fmt_unguarded(self) ==
    <<BannerLine, VersionLine(self.latest_version), FooterLine(self.url)>>

\* <UpdateInfo as Display>::fmt: the lines written to the formatter
fmt(self) ==
    IF self.is_update_available
    THEN <<BannerLine, VersionLine(self.latest_version)>>
         \o (IF IsSome(self.changelog)
             THEN LET changelog == Unwrap(self.changelog)
                      kept == rendered_lines(changelog)
                  IN  <<ChangelogLine>>
                      \o [k \in 1..Len(kept) |-> entry(kept[k])]
                      \o (IF has_more(changelog) THEN <<MoreLine>> ELSE <<>>)
             ELSE <<>>)
         \o <<FooterLine(self.url)>>
    ELSE <<>>

\* println!("{self}"): the formatted lines and the line println! ends
println(self) == fmt(self) \o <<<<>>>>

\* UpdateInfo::print: the lines written to standard output
print(self) == IF self.is_update_available THEN println(self) ELSE <<>>

\* the changelog lines the renderings are given
FewKinds == {<<"#", "#", " ", "T">>, <<"-", " ", "a">>, <<"d">>}
AllKinds ==
    FewKinds \cup {<<>>, <<" ">>, <<"#", "#", "e">>, <<"*", " ", "b">>,
                   <<Bullet, " ", "c">>, <<Bullet, Bullet, "f">>, <<" ", "-", "g">>}

\* the text whose lines are ls: separated by "\n", or each ended by "\r\n"
Text(ls, eol) ==
    IF eol = "lf"
    THEN Concat([i \in 1..Len(ls) |-> IF i = 1 THEN ls[i] ELSE <<"\n">> \o ls[i]])
    ELSE Concat([i \in 1..Len(ls) |-> ls[i] \o <<"\r", "\n">>])

DisplayChangelogs ==
    {None}
        \cup {Some(Text(ls, "lf")) : ls \in SeqUpTo(FewKinds, MaxLines)}
        \cup {Some(Text(ls, eol)) : ls \in SeqUpTo(AllKinds, MaxShort), eol \in {"lf", "crlf"}}

DisplayVersions == {v1_2_3, Version(10, 0, 2, <<"a">>, <<"b">>)}
DisplayUrls == {<<>>, <<"https://crates.io/crates/">> \o serde}

UpdateInfos ==
    [is_update_available : BOOLEAN, latest_version : DisplayVersions,
     changelog : DisplayChangelogs, url : DisplayUrls]

InitDisplay ==
    /\ op = "none"
    /\ args \in UpdateInfos
    /\ ret = None
    /\ Quiet

\* write!(f, "{}", info): the formatter receives what fmt writes
Fmt ==
    /\ op = "none"
    /\ op' = "fmt"
    /\ ret' = fmt(args)
    /\ UNCHANGED <<args, upstream, requests, trace, stdout, result, calls, sent>>

\* info.print()
PrintInfo ==
    /\ op = "none"
    /\ op' = "print"
    /\ stdout' = print(args)
    /\ UNCHANGED <<args, upstream, requests, trace, ret, result, calls, sent>>

NextDisplay == Fmt \/ PrintInfo

SpecDisplay == InitDisplay /\ [][NextDisplay]_vars

\* what the invocation rendered: the formatter's lines, or the lines on
\* standard output before the line println! ends
Rendered ==
    IF op = "fmt" THEN ret
    ELSE IF stdout = <<>> THEN <<>> ELSE SubSeq(stdout, 1, Len(stdout) - 1)

\* a rendering of an available update with a changelog has taken place
ChangelogRendered ==
    /\ op \in {"fmt", "print"}
    /\ args.is_update_available
    /\ IsSome(args.changelog)

\* a qualifying line: neither blank nor starting with "## "
Qualifying(line) ==
    /\ \E i \in 1..Len(line) : line[i] \notin Whitespace
    /\ ~(Len(line) >= 3 /\ line[1] = "#" /\ line[2] = "#" /\ line[3] = " ")

\* the positions of the qualifying lines of a text
QualifyingAt(text) == {i \in 1..Len(lines(text)) : Qualifying(lines(text)[i])}

\* the k-th qualifying line of a text
NthQualifying(text, k) ==
    lines(text)[CHOOSE i \in QualifyingAt(text) :
                    Cardinality({j \in QualifyingAt(text) : j <= i}) = k]

\* the changelog entries of a rendering: the lines after the "Changelog:"
\* line and before the "(and more...)" bullet, if any, and the footer
EntriesOf(out) ==
    SubSeq(out, 4, Len(out) - (IF out[Len(out) - 1] = MoreLine THEN 2 ELSE 1))

\* C2: rendering an UpdateInfo whose is_update_available is false writes
\* nothing at all, whatever its changelog and url, and print prints nothing.
C2_SilentWithoutUpdate ==
    op \in {"fmt", "print"} /\ ~args.is_update_available =>
        /\ Rendered = <<>>
        /\ ret = <<>>
        /\ stdout = <<>>

\* C2 witness: an UpdateInfo without update but with a changelog of
\* qualifying lines and a url has been formatted to nothing.
C2_Witness ==
    /\ op = "fmt"
    /\ ~args.is_update_available
    /\ IsSome(args.changelog)
    /\ QualifyingAt(Unwrap(args.changelog)) # {}
    /\ args.url # <<>>
    /\ ret = <<>>

\* C8: the rendered changelog entries are the first min(4, q) qualifying
\* lines of the changelog in original order, q the number of qualifying lines
\* of the whole changelog; blank and header lines before them do not reduce
\* the number of entries shown.
C8_FirstFourQualifying ==
    ChangelogRendered =>
        LET text == Unwrap(args.changelog)
            q == Cardinality(QualifyingAt(text))
            n == IF q < 4 THEN q ELSE 4
            entries == EntriesOf(Rendered)
        IN  /\ Len(entries) = n
            /\ \A k \in 1..n : entries[k] = entry(NthQualifying(text, k))

\* C9: the rendering holds the "(and more...)" bullet exactly when the whole
\* changelog has more than 4 qualifying lines; it appears at most once, after
\* every rendered entry and right before the "More info" footer, and never
\* when the changelog is absent.
C9_AndMoreBullet ==
    op \in {"fmt", "print"} /\ args.is_update_available =>
        LET out == Rendered
            at == {i \in 1..Len(out) : out[i] = MoreLine}
        IN  /\ out[Len(out)] = FooterLine(args.url)
            /\ ~IsSome(args.changelog) => at = {}
            /\ IsSome(args.changelog) =>
                  /\ out[3] = ChangelogLine
                  /\ IF Cardinality(QualifyingAt(Unwrap(args.changelog))) > 4
                     THEN at = {Len(out) - 1}
                     ELSE at = {}
                  /\ \A i \in 4..(Len(out) - 1) :
                        i \notin at => \E l \in 1..Len(lines(Unwrap(args.changelog))) :
                            out[i] = entry(lines(Unwrap(args.changelog))[l])

\* C9 witness: a changelog of more than 4 qualifying lines has been rendered
\* with entries, the bullet after them and the footer last.
C9_Witness ==
    /\ ChangelogRendered
    /\ Cardinality(QualifyingAt(Unwrap(args.changelog))) > 4
    /\ Len(Rendered) >= 6
    /\ Rendered[Len(Rendered) - 1] = MoreLine
    /\ Rendered[Len(Rendered) - 2] # ChangelogLine

\* the characters of a line that are not spaces
RECURSIVE Squeeze(_)
Squeeze(s) ==
    IF s = <<>> THEN <<>>
    ELSE (IF Head(s) = " " THEN <<>> ELSE <<Head(s)>>) \o Squeeze(Tail(s))

\* C10: every rendered changelog entry carries exactly one bullet marker: a
\* kept line starting with "-", "*" or the bullet is rendered with that
\* marker stripped and a single bullet prefixed, any other kept line as the
\* raw line prefixed with the bullet (compared up to spaces).
C10_OneBulletPerEntry ==
    ChangelogRendered =>
        LET kept == rendered_lines(Unwrap(args.changelog))
            entries == EntriesOf(Rendered)
        IN  /\ Len(entries) = Len(kept)
            /\ \A k \in 1..Len(kept) :
                  Squeeze(entries[k]) =
                      <<Bullet>> \o Squeeze(IF kept[k][1] \in {"-", "*", Bullet}
                                            THEN Tail(kept[k])
                                            ELSE kept[k])

---------------------------------------------------------------------------
(* The check operations of src/logic.rs and the entry points of src/lib.rs. *)

\* UpdateAvailable::new
UpdateAvailable_new(name, current_version) ==
    [name |-> name, current_version |-> current_version]

\* the status codes the upstream answers with
Statuses == {200, 204, 304, 404, 500}

\* http::StatusCode::canonical_reason
canonical_reason(status) ==
    CASE status = 200 -> "OK"
      [] status = 204 -> "No Content"
      [] status = 304 -> "Not Modified"
      [] status = 404 -> "Not Found"
      [] status = 500 -> "Internal Server Error"
      [] OTHER -> "<unknown status code>"

\* Display of http::StatusCode: the number and the canonical reason
StatusCode_to_string(status) ==
    NumberToString(status) \o <<" ", canonical_reason(status)>>

\* a faulty is_success: a redirection status counts as success
is_success_below_400(status) == 200 <= status /\ status < 400

\* http::StatusCode::is_success
is_success(status) == 200 <= status /\ status < 300

\* RequestBuilder::call with ureq's default configuration: a transport
\* failure and a 4xx or 5xx status are errors, any other response is returned
ureq_call(answer) ==
    IF ~answer.connected THEN Err(<<"io: ", "transport error">>)
    ELSE IF 400 <= answer.status /\ answer.status < 600
    THEN Err(<<"http status: ">> \o NumberToString(answer.status))
    ELSE Ok(answer)

JsonError == <<"json: ", "serde_json::Error">>

\* read_json::<CratesResponse>: { crate: { max_version, name } }, the
\* max_version deserialized by Version::parse
read_json_crates(answer) ==
    IF answer.shape # "crates" THEN Err(JsonError)
    ELSE LET max_version == Version_parse(answer.json.max_version)
         IN  IF ~max_version.ok THEN Err(JsonError)
             ELSE Ok(CratesResponse(CrateInfo(Unwrap(max_version.val), answer.json.name)))

\* read_json::<GiteaHubResponse>: { tag_name, body, html_url }
read_json_forge(answer) ==
    IF answer.shape # "forge" THEN Err(JsonError)
    ELSE Ok(GiteaHubResponse(answer.json.tag_name, answer.json.body,
                             answer.json.html_url))

\* what an invocation did: the URLs requested, the methods and resolvers
\* called, the lines written to standard output, the value returned
Effects(urls, called, written, returned) ==
    [requests |-> urls, trace |-> called, stdout |-> written, ret |-> returned]

\* println!/bail!("Failed to fetch data from {host}: {}", response.status())
FailedToFetch(host, status) ==
    <<"Failed to fetch data from ", host, ": ">> \o StatusCode_to_string(status)

crates_io_url(name) == <<"https://crates.io/api/v1/crates/">> \o name

github_url(user, name) ==
    <<"https://api.github.com/repos/">> \o user \o <<"/">> \o name
        \o <<"/releases/latest">>

\* a faulty gitea_url_of: a trailing "/" of the base URL is dropped
gitea_url_normalized(gitea_url, user, name) ==
    (IF gitea_url # <<>> /\ gitea_url[Len(gitea_url)] = "/"
     THEN SubSeq(gitea_url, 1, Len(gitea_url) - 1) ELSE gitea_url)
        \o <<"/api/v1/repos/">> \o user \o <<"/">> \o name \o <<"/releases/latest">>

gitea_url_of(gitea_url, user, name) ==
    gitea_url \o <<"/api/v1/repos/">> \o user \o <<"/">> \o name
        \o <<"/releases/latest">>

\* UpdateAvailable::crates_io
crates_io(self, answer) ==
    LET url == crates_io_url(self.name)
        response == ureq_call(answer)
    IN  IF ~response.ok
        THEN Effects(<<url>>, <<"crates_io">>, <<>>, Err(Unwrap(response.err)))
        ELSE IF is_success(Unwrap(response.val).status)
        THEN LET json == read_json_crates(Unwrap(response.val))
             IN  IF ~json.ok
                 THEN Effects(<<url>>, <<"crates_io">>, <<>>, Err(Unwrap(json.err)))
                 ELSE Effects(<<url>>, <<"crates_io", "from_crates">>, <<>>,
                              from_crates(Unwrap(json.val), self.current_version))
        ELSE Effects(<<url>>, <<"crates_io">>,
                     <<FailedToFetch("crates.io", Unwrap(response.val).status)>>,
                     Err(FailedToFetch("crates.io", Unwrap(response.val).status)))

\* a faulty releases_latest: a failed call is tried a second time
releases_latest_retry(method, host, url, self, answer) ==
    LET response == ureq_call(answer)
    IN  IF ~response.ok
        THEN Effects(<<url, url>>, <<method>>, <<>>, Err(Unwrap(response.err)))
        ELSE IF is_success(Unwrap(response.val).status)
        THEN LET json == read_json_forge(Unwrap(response.val))
             IN  IF ~json.ok
                 THEN Effects(<<url>>, <<method>>, <<>>, Err(Unwrap(json.err)))
                 ELSE Effects(<<url>>, <<method, "from_gitea_or_hub">>, <<>>,
                              from_gitea_or_hub(Unwrap(json.val), self.current_version))
        ELSE Effects(<<url>>, <<method>>,
                     <<FailedToFetch(host, Unwrap(response.val).status)>>,
                     Err(FailedToFetch(host, Unwrap(response.val).status)))

\* the body shared by UpdateAvailable::github and UpdateAvailable::gitea
releases_latest(method, host, url, self, answer) ==
    LET response == ureq_call(answer)
    IN  IF ~response.ok
        THEN Effects(<<url>>, <<method>>, <<>>, Err(Unwrap(response.err)))
        ELSE IF is_success(Unwrap(response.val).status)
        THEN LET json == read_json_forge(Unwrap(response.val))
             IN  IF ~json.ok
                 THEN Effects(<<url>>, <<method>>, <<>>, Err(Unwrap(json.err)))
                 ELSE Effects(<<url>>, <<method, "from_gitea_or_hub">>, <<>>,
                              from_gitea_or_hub(Unwrap(json.val), self.current_version))
        ELSE Effects(<<url>>, <<method>>,
                     <<FailedToFetch(host, Unwrap(response.val).status)>>,
                     Err(FailedToFetch(host, Unwrap(response.val).status)))

\* UpdateAvailable::github
github(self, user, answer) ==
    releases_latest("github", "GitHub", github_url(user, self.name), self, answer)

\* UpdateAvailable::gitea
gitea(self, user, gitea_url, answer) ==
    releases_latest("gitea", "Gitea", gitea_url_of(gitea_url, user, self.name),
                    self, answer)

check_crates_io(name, current_version, answer) ==
    crates_io(UpdateAvailable_new(name, current_version), answer)

check_github(name, user, current_version, answer) ==
    github(UpdateAvailable_new(name, current_version), user, answer)

check_gitea(name, user, gitea_url, current_version, answer) ==
    gitea(UpdateAvailable_new(name, current_version), user, gitea_url, answer)

\* enum Source
CratesIo == [variant |-> "CratesIo", user |-> <<>>, gitea_url |-> <<>>]
Github(user) == [variant |-> "Github", user |-> user, gitea_url |-> <<>>]
Gitea(user, gitea_url) == [variant |-> "Gitea", user |-> user, gitea_url |-> gitea_url]
NoSource == [variant |-> "none", user |-> <<>>, gitea_url |-> <<>>]

\* the match of print_check: the Result of the check the source selects
print_check_result(name, current_version, source, answer) ==
    CASE source.variant = "CratesIo" -> check_crates_io(name, current_version, answer)
      [] source.variant = "Github" ->
            check_github(name, source.user, current_version, answer)
      [] source.variant = "Gitea" ->
            gitea(UpdateAvailable_new(name, current_version), source.user,
                  source.gitea_url, answer)

\* print_check: the check the source selects, then info.print() when its
\* Result is Ok; an Err is dropped and () is returned
print_check(name, current_version, source, answer) ==
    LET checked == print_check_result(name, current_version, source, answer)
    IN  Effects(checked.requests, checked.trace,
                checked.stdout
                    \o (IF checked.ret.ok THEN print(Unwrap(checked.ret.val)) ELSE <<>>),
                None)

\* the callers' arguments and the upstream's answers
Users == {<<"bircni">>}
GiteaUrls == {<<"https://gitea.example.com">>, <<"https://gitea.example.com", "/">>}
Sources == {CratesIo} \cup {Github(u) : u \in Users}
               \cup {Gitea(u, g) : u \in Users, g \in GiteaUrls}

CheckVersions ==
    {<<"1", ".", "0", ".", "0">>, <<"1", ".", "2", ".", "3">>, not_a_version}

SixLines ==
    <<"#", "#", " ", "T", "\n", "-", " ", "a", "\n", "-", " ", "b", "\n",
      "-", " ", "c", "\n", "-", " ", "d", "\n", "-", " ", "e">>

CratesJson ==
    [max_version : {<<"2", ".", "0", ".", "0">>, <<"1", ".", "0", ".", "0">>,
                    <<"1", ".", "0">>},
     name : {serde}]

ForgeJson ==
    [tag_name : {<<"v", "1", ".", "2", ".", "3">>, <<"1", ".", "0", ".", "0">>,
                 <<"v">>, <<"v", "v", "1", ".", "2", ".", "3">>},
     body : Bodies \cup {Some(SixLines)},
     html_url : HtmlUrls]

\* no answer at all: the transport failed
NoAnswer == [connected |-> FALSE, status |-> 0, shape |-> "none", json |-> <<>>]

Answer(status, shape, json) ==
    [connected |-> TRUE, status |-> status, shape |-> shape, json |-> json]

Init ==
    /\ op = "none"
    /\ args \in [name : Names, current_version : CheckVersions,
                 user : {<<>>}, gitea_url : {<<>>}, source : {NoSource}]
    /\ \/ upstream = NoAnswer
       \/ \E st \in Statuses : upstream = Answer(st, "garbage", <<>>)
       \/ \E st \in Statuses, j \in CratesJson : upstream = Answer(st, "crates", j)
       \/ \E st \in Statuses, j \in ForgeJson : upstream = Answer(st, "forge", j)
    /\ requests = <<>>
    /\ trace = <<>>
    /\ stdout = <<>>
    /\ ret = None
    /\ result = None
    /\ calls = 0
    /\ sent = 0

\* the variables after an invocation with effects e
Invoked(name, e, returned, checked) ==
    /\ calls < MaxCalls
    /\ op' = name
    /\ requests' = e.requests
    /\ trace' = e.trace
    /\ stdout' = e.stdout
    /\ ret' = returned
    /\ result' = checked
    /\ calls' = calls + 1
    /\ sent' = sent + Len(e.requests)
    /\ UNCHANGED upstream

CheckCratesIo ==
    \E e \in {check_crates_io(args.name, args.current_version, upstream)} :
        /\ Invoked("check_crates_io", e, e.ret, e.ret)
        /\ args' = [args EXCEPT !.user = <<>>, !.gitea_url = <<>>, !.source = NoSource]

CheckGithub ==
    \E user \in Users :
        \E e \in {check_github(args.name, user, args.current_version, upstream)} :
            /\ Invoked("check_github", e, e.ret, e.ret)
            /\ args' = [args EXCEPT !.user = user, !.gitea_url = <<>>,
                                    !.source = NoSource]

CheckGitea ==
    \E user \in Users, gitea_url \in GiteaUrls :
        \E e \in {check_gitea(args.name, user, gitea_url, args.current_version,
                              upstream)} :
            /\ Invoked("check_gitea", e, e.ret, e.ret)
            /\ args' = [args EXCEPT !.user = user, !.gitea_url = gitea_url,
                                    !.source = NoSource]

\* print_check returns (): ret is None, result is its local `result`
PrintCheck ==
    \E source \in Sources :
        \E e \in {print_check(args.name, args.current_version, source, upstream)},
           checked \in {print_check_result(args.name, args.current_version, source,
                                           upstream)} :
            /\ Invoked("print_check", e, e.ret, checked.ret)
            /\ args' = [args EXCEPT !.user = <<>>, !.gitea_url = <<>>,
                                    !.source = source]

Next == CheckCratesIo \/ CheckGithub \/ CheckGitea \/ PrintCheck

Spec == Init /\ [][Next]_vars

\* whether string s holds string t as a contiguous part
Contains(s, t) ==
    \E i \in 0..(Len(s) - Len(t)) : SubSeq(s, i + 1, i + Len(t)) = t

CheckOps == {"check_crates_io", "check_github", "check_gitea"}

\* C5: whenever the upstream's response has a non-2xx status, a check
\* operation returns an error carrying that status code, never an UpdateInfo,
\* and no resolver is invoked on the response.
C5_NonSuccessIsError ==
    op \in CheckOps /\ upstream.connected
        /\ ~(200 <= upstream.status /\ upstream.status <= 299) =>
        /\ ~ret.ok
        /\ ret.val = None
        /\ Contains(Unwrap(ret.err), NumberToString(upstream.status))
        /\ \A i \in 1..Len(trace) : trace[i] \notin {"from_crates", "from_gitea_or_hub"}

\* C5 witness: check_github got a 404 with a well-formed release body and
\* returned an error.
C5_Witness ==
    /\ op = "check_github"
    /\ upstream.connected
    /\ upstream.status = 404
    /\ upstream.shape = "forge"
    /\ ~ret.ok
    /\ trace = <<"github">>

\* C6: print_check writes the formatted summary only when the check
\* succeeded with is_update_available true; in every other outcome it writes
\* no output at all, and it surfaces no error.
C6_PrintCheckSilent ==
    op = "print_check" =>
        /\ ret = None
        /\ stdout = IF result.ok /\ Unwrap(result.val).is_update_available
                    THEN println(Unwrap(result.val))
                    ELSE <<>>

\* C7: print_check delegates to exactly the one check operation matching the
\* Source variant, and the variant alone fixes the endpoint requested; the
\* Gitea base URL is used verbatim; no other endpoint is requested.
C7_SourceFixesEndpoint ==
    op = "print_check" =>
        LET methods == {i \in 1..Len(trace) : trace[i] \in {"crates_io", "github", "gitea"}}
            source == args.source
        IN  /\ Cardinality(methods) = 1
            /\ source.variant = "CratesIo" =>
                  /\ trace[1] = "crates_io"
                  /\ requests = <<<<"https://crates.io/api/v1/crates/">> \o args.name>>
            /\ source.variant = "Github" =>
                  /\ trace[1] = "github"
                  /\ requests = <<<<"https://api.github.com/repos/">> \o source.user
                                      \o <<"/">> \o args.name \o <<"/releases/latest">>>>
            /\ source.variant = "Gitea" =>
                  /\ trace[1] = "gitea"
                  /\ requests = <<source.gitea_url \o <<"/api/v1/repos/">> \o source.user
                                      \o <<"/">> \o args.name \o <<"/releases/latest">>>>

\* C7 witness: print_check with a Gitea source whose base URL ends in "/"
\* has requested the endpoint under that base, slash included.
C7_Witness ==
    /\ op = "print_check"
    /\ args.source.variant = "Gitea"
    /\ args.source.gitea_url[Len(args.source.gitea_url)] = "/"
    /\ Len(requests) = 1
    /\ SubSeq(requests[1], 1, 3)
          = <<"https://gitea.example.com", "/", "/api/v1/repos/">>

\* an invocation of an entry point has returned
Returned == op \in CheckOps \cup {"print_check"}

\* the check failed in the transport, on the status, in deserialization or
\* in parsing a version
CheckFailed == Returned /\ ~result.ok

\* C11: every invocation of a check operation, print_check included, issues
\* exactly one outbound request whatever the outcome; a failed attempt is
\* not repeated and is reported as one error; nothing of one check is kept
\* for a later one (the same call on the same answer does the same again).
C11_OneRequestPerCheck ==
    /\ [](/\ sent = calls
          /\ Returned => Len(requests) = 1
          /\ CheckFailed => result.val = None /\ Len(result.err) = 1
          /\ op \in CheckOps => ret = result)
    /\ [][/\ calls' = calls + 1
          /\ sent' = sent + 1
          /\ Len(requests') = 1
          /\ (op' = op /\ args' = args) =>
                /\ requests' = requests
                /\ trace' = trace
                /\ stdout' = stdout
                /\ result' = result]_vars

\* C11 witness: a second invocation has failed in the transport like the
\* first, and two requests were issued in all, one by each.
C11_Witness ==
    /\ op = "check_github"
    /\ ~upstream.connected
    /\ calls = 2
    /\ sent = 2
    /\ Len(requests) = 1
    /\ ~result.ok

=============================================================================
